---------------------------- MODULE Spec2Model ----------------------------
(***************************************************************************)
(* A model of irclogger-viewer: the access gate and the request handlers   *)
(* (src/src/route.rs), the archive indexer, credential reader and search   *)
(* delegate (src/src/state.rs) and the log line reader (src/src/reader.rs).*)
(*                                                                         *)
(* Text is modelled as sequences of one-character strings, so that the     *)
(* splitting, prefix tests and pattern matching of the code are computed   *)
(* character by character.                                                 *)
(***************************************************************************)
EXTENDS Integers, Sequences, FiniteSets, TLC

VARIABLES
    \* ---- filesystem seen by the access gate
    publicMarker,   \* set of channel directories holding a PUBLIC file
    pwFile,         \* content of the credential file, or Unreadable
    \* ---- the request in flight (route.rs handlers)
    pc,             \* position of the handler
    req,            \* the request: route, channel, Authorization header, query
    access,         \* result of user_has_access once the gate has run
    io,             \* I/O operations the request has made so far, in order
    resp,           \* the response (status code) once the handler returned
    listing,        \* last result of get_channels
    versions,       \* contents the credential file had during user_has_access
    \* ---- one run of search_channel (state.rs)
    s_pc,           \* position in search_channel
    s_proc,         \* what the search process did: exit status and stdout
    s_count,        \* the loop's enumerate() index: output lines consumed
    s_results,      \* search_results, run-length encoded
    s_ret,          \* the value search_channel returned
    \* ---- one log file and what the reader made of it (reader.rs)
    r_pc,           \* which reader functions have run on the file
    r_file,         \* the decoded content of the log file
    r_count,        \* result of count_message_lines
    r_read,         \* result of read_lines
    r_view,         \* the line view's output lines (make_output_lines)
    \* ---- one channel directory and the archive indexer (state.rs)
    d_pc,           \* which indexer operations have run
    d_dir,          \* the channel directory: file name -> decoded content
    d_entries,      \* result of get_channel_daily_entries
    d_day           \* slug given to get_log_lines and its result

gateVars == <<publicMarker, pwFile, pc, req, access, io, resp, listing, versions>>

searchVars == <<s_pc, s_proc, s_count, s_results, s_ret>>

readerVars == <<r_pc, r_file, r_count, r_read, r_view>>

indexVars == <<d_pc, d_dir, d_entries, d_day>>

vars == <<gateVars, searchVars, readerVars, indexVars>>

(***************************************************************************)
(* Text helpers (Rust str methods used by the code).                       *)
(***************************************************************************)
None == [none |-> TRUE]

\* str::find(c): 1-based index of the first occurrence of c, 0 when absent
FindChar(s, c) ==
    IF \E i \in 1..Len(s) : s[i] = c
    THEN CHOOSE i \in 1..Len(s) : s[i] = c /\ \A j \in 1..(i - 1) : s[j] # c
    ELSE 0

\* str::rfind(c): 1-based index of the last occurrence of c, 0 when absent
RFindChar(s, c) ==
    IF \E i \in 1..Len(s) : s[i] = c
    THEN CHOOSE i \in 1..Len(s) : s[i] = c /\ \A j \in (i + 1)..Len(s) : s[j] # c
    ELSE 0

\* str::split_once(c): None, or the text before and after the first c
SplitOnce(s, c) ==
    LET i == FindChar(s, c)
    IN  IF i = 0 THEN None
        ELSE [head |-> SubSeq(s, 1, i - 1), tail |-> SubSeq(s, i + 1, Len(s))]

\* str::starts_with(c) for a single character
StartsWithChar(s, c) == Len(s) > 0 /\ s[1] = c

\* str::contains(sub)
ContainsStr(s, sub) ==
    \E i \in 1..(Len(s) - Len(sub) + 1) : SubSeq(s, i, i + Len(sub) - 1) = sub

\* str::split(c): the pieces between the occurrences of c (always >= 1 piece)
RECURSIVE SplitAll(_, _)
SplitAll(s, c) ==
    LET i == FindChar(s, c)
    IN  IF i = 0 THEN <<s>>
        ELSE <<SubSeq(s, 1, i - 1)>> \o SplitAll(SubSeq(s, i + 1, Len(s)), c)

\* The characters of the model in byte order; the last one stands for the
\* UTF-8 encoding of U+FFFD, which sorts after every ASCII character.
CharOrder ==
    <<"\t", "\n", "\r", " ", "#", "*", "+", ",", "-", ".", "/", "0", "1",
      "2", "3", "4", "5", "6", "7", "8", "9", ":", "<", ">", "B", "C",
      "F", "I", "L", "P", "Q", "U", "[", "]", "a", "b", "e", "f", "g",
      "h", "l", "n", "o", "p", "q", "s", "t", "x", "uFFFD">>

Rank(c) == CHOOSE i \in 1..Len(CharOrder) : CharOrder[i] = c

\* Ord for str: lexicographic by byte
RECURSIVE StrLess(_, _)
StrLess(a, b) ==
    IF Len(b) = 0 THEN FALSE
    ELSE IF Len(a) = 0 THEN TRUE
    ELSE IF a[1] # b[1] THEN Rank(a[1]) < Rank(b[1])
    ELSE StrLess(Tail(a), Tail(b))

\* The elements of a finite set of strings as an ascending sequence
RECURSIVE SortAsc(_)
SortAsc(S) ==
    IF S = {} THEN <<>>
    ELSE LET m == CHOOSE x \in S : \A y \in S \ {x} : StrLess(x, y)
         IN  <<m>> \o SortAsc(S \ {m})

\* Vec::reverse
Reverse(s) == [i \in 1..Len(s) |-> s[Len(s) + 1 - i]]

\* The lines candidate lines joined with "\n"
RECURSIVE JoinLines(_)
JoinLines(ls) ==
    IF Len(ls) = 0 THEN <<>>
    ELSE IF Len(ls) = 1 THEN ls[1]
    ELSE ls[1] \o <<"\n">> \o JoinLines(Tail(ls))

\* All sequences over S of length at most n
SeqsUpTo(S, n) == UNION { [1..k -> S] : k \in 0..n }


(***************************************************************************)
(* Results of fallible operations (anyhow::Result).                        *)
(***************************************************************************)
Ok(v) == [ok |-> TRUE, val |-> v]
Err == [ok |-> FALSE]

(***************************************************************************)
(* Names, credential file contents and requests of the model.              *)
(***************************************************************************)
MaxPwLines == 2
MaxLogFiles == 2

nFo == <<"f", "o">>
nB == <<"b">>
nUpperFo == <<"F", "o">>
nHashFo == <<"#", "f", "o">>

\* Directories under chat_log_directory
ChannelDirs == {nFo, nHashFo}

\* Channel names a route can carry (app.rs: [a-z0-9._-]+)
RequestChannels == {nFo, nB}

Names == ChannelDirs \cup RequestChannels \cup {nUpperFo}

\* Secrets "P" and "Q" are the hashes of the passwords "p" and "q"
PwLines ==
    { <<"f", "o", ":", "P">>,
      <<"f", "o", ":", "Q">>,
      <<"#", "f", "o", ":", "P">>,
      <<"F", "o", ":", "P">>,
      <<"f", "o">> }

Unreadable == <<"unreadable">>

PwContents == { JoinLines(ls) : ls \in SeqsUpTo(PwLines, MaxPwLines) }

PwFileStates == PwContents \cup {Unreadable}

NoHeader == [kind |-> "none"]
Headers ==
    {NoHeader, [kind |-> "undecodable"]}
    \cup { [kind |-> "basic", user_id |-> u, password |-> p] :
             u \in {nFo, nUpperFo}, p \in {<<"p">>, <<"q">>} }

Requests ==
    { [route |-> "index", channel |-> <<>>, header |-> NoHeader] }
    \cup { [route |-> r, channel |-> c, header |-> h] :
             r \in {"daily", "lines", "search"}, c \in RequestChannels,
             h \in Headers }

NoRequest == [route |-> "none", channel |-> <<>>, header |-> NoHeader]

ArchiveOps == {"list_dir", "open_log", "read_raw_log", "spawn_search"}

(***************************************************************************)
(* Credential Store Reader (state.rs).                                     *)
(***************************************************************************)
\* is_channel_marked_public: <root>/<name>/PUBLIC is a file
IsChannelMarkedPublic(name, markers) == name \in markers

\* is_channel_in_password_file, on the content read: scan the lines in order
RECURSIVE ScanPasswordLines(_, _)
ScanPasswordLines(name, lines) ==
    IF Len(lines) = 0 THEN FALSE
    ELSE LET line == Head(lines)
             parts == SplitOnce(line, ":")
         IN  IF StartsWithChar(line, "#") THEN ScanPasswordLines(name, Tail(lines))
             ELSE IF parts # None /\ name = parts.head THEN TRUE
             ELSE ScanPasswordLines(name, Tail(lines))

\* the same scan without the test for a leading '#'
IsChannelInPasswordFileNoSkip(name, content) ==
    \E i \in 1..Len(SplitAll(content, "\n")) :
        LET parts == SplitOnce(SplitAll(content, "\n")[i], ":")
        IN  parts # None /\ name = parts.head

IsChannelInPasswordFile(name, content) ==
    ScanPasswordLines(name, SplitAll(content, "\n"))

\* is_channel_private: !marked_public && in_password_file?  (the file is read
\* only when the channel is not marked public)
IsChannelPrivateSwapped(name, markers, file) ==
    IF IsChannelMarkedPublic(name, markers)
    THEN (IF file = Unreadable THEN Err
          ELSE Ok(IsChannelInPasswordFile(name, file)))
    ELSE Ok(FALSE)

IsChannelPrivate(name, markers, file) ==
    IF ~IsChannelMarkedPublic(name, markers)
    THEN (IF file = Unreadable THEN Err
          ELSE Ok(IsChannelInPasswordFile(name, file)))
    ELSE Ok(FALSE)

\* htpasswd_verify: a record "name:secret" per line, split at the first ':'
ParseHashEntry(entry) ==
    LET i == FindChar(entry, ":")
    IN  IF i = 0 THEN None
        ELSE [username |-> SubSeq(entry, 1, i - 1),
              hash |-> SubSeq(entry, i + 1, Len(entry))]

\* htpasswd_verify::load: the entries are collected into a map, so a later
\* record of a name replaces an earlier one
RECURSIVE LoadEntries(_, _)
LoadEntries(lines, table) ==
    IF Len(lines) = 0 THEN table
    ELSE LET e == ParseHashEntry(Head(lines))
         IN  IF e = None THEN LoadEntries(Tail(lines), table)
             ELSE LoadEntries(Tail(lines),
                    [n \in DOMAIN table \cup {e.username} |->
                        IF n = e.username THEN e.hash ELSE table[n]])

Load(content) == LoadEntries(SplitAll(content, "\n"), <<>>)

\* Hash::check: whether the stored secret is the hash of the password
HashCheck(hash, password) ==
    \/ hash = <<"P">> /\ password = <<"p">>
    \/ hash = <<"Q">> /\ password = <<"q">>

\* Htpasswd::check: unknown name -> false
PasswordsCheck(table, username, password) ==
    username \in DOMAIN table /\ HashCheck(table[username], password)

\* is_password_ok, on the content read
IsPasswordOk(channel_name, password, content) ==
    PasswordsCheck(Load(content), channel_name, password)

\* get_channels: one ChannelInfo per directory, sorted by name; the first
\* failing is_channel_private fails the whole listing
GetChannels(dirs, markers, file) ==
    IF \E d \in dirs : ~IsChannelPrivate(d, markers, file).ok THEN Err
    ELSE LET names == SortAsc(dirs)
         IN  Ok([i \in 1..Len(names) |->
                  [name |-> names[i],
                   is_private |-> IsChannelPrivate(names[i], markers, file).val]])

(***************************************************************************)
(* Access gate and request handlers (route.rs).                            *)
(***************************************************************************)
\* user_has_access line 303: channel == credentials.user_id
IdentityMatchesAny(channel, user_id) == TRUE

IdentityMatches(channel, user_id) == channel = user_id

\* the handlers' `if !user_has_access(..)? { return 401 }`
AccessDeniedNever(acc) == FALSE

AccessDenied(acc) == acc = "denied"

\* n copies of an I/O operation
Repeat(op, n) == [i \in 1..n |-> op]

GateInit ==
    /\ publicMarker \in SUBSET ChannelDirs
    /\ pwFile \in PwFileStates
    /\ pc = "idle"
    /\ req = NoRequest
    /\ access = "pending"
    /\ io = <<>>
    /\ resp = 0
    /\ listing = Err
    /\ versions = {}

\* The external logger and administrator change the files while a request
\* runs (no state but the files outlives a request, so changes between
\* requests add nothing to the files a request can meet)
FsWrite ==
    /\ pc \notin {"idle", "done"}
    /\ \/ \E f \in PwFileStates : pwFile' = f /\ UNCHANGED publicMarker
       \/ \E m \in SUBSET ChannelDirs : publicMarker' = m /\ UNCHANGED pwFile
    /\ UNCHANGED <<pc, req, access, io, resp, listing>>
    /\ UNCHANGED <<versions, searchVars, readerVars, indexVars>>

\* A request arrives and is routed to its handler
NewRequest ==
    /\ pc = "idle"
    /\ \E r \in Requests :
         /\ req' = r
         /\ pc' = IF r.route = "index" THEN "index" ELSE "gate_marker"
    /\ access' = "pending"
    /\ io' = <<>>
    /\ resp' = 0
    /\ listing' = Err
    /\ UNCHANGED <<publicMarker, pwFile>>
    /\ UNCHANGED <<versions, searchVars, readerVars, indexVars>>

\* error_wrapper hands the response to the server; the request is over
Respond ==
    /\ pc = "done"
    /\ pc' = "idle"
    /\ req' = NoRequest
    /\ access' = "pending"
    /\ io' = <<>>
    /\ resp' = 0
    /\ listing' = Err
    /\ UNCHANGED <<publicMarker, pwFile>>
    /\ UNCHANGED <<versions, searchVars, readerVars, indexVars>>

\* route::index, as far as get_channels
Index ==
    /\ pc = "index"
    /\ listing' = GetChannels(ChannelDirs, publicMarker, pwFile)
    /\ resp' = IF listing'.ok THEN 200 ELSE 500
    /\ pc' = "done"
    /\ UNCHANGED <<publicMarker, pwFile, req, access, io>>
    /\ UNCHANGED <<versions, searchVars, readerVars, indexVars>>

\* user_has_access -> is_channel_private -> is_channel_marked_public
GateMarker ==
    /\ pc = "gate_marker"
    /\ io' = Append(io, "stat_public")
    /\ IF IsChannelMarkedPublic(req.channel, publicMarker)
       THEN access' = "granted" /\ pc' = "gate_done"
       ELSE access' = access /\ pc' = "gate_member"
    /\ UNCHANGED <<publicMarker, pwFile, req, resp, listing>>
    /\ UNCHANGED <<versions, searchVars, readerVars, indexVars>>

\* user_has_access -> is_channel_private -> is_channel_in_password_file, then
\* the Authorization header up to the identity comparison
GateMember ==
    /\ pc = "gate_member"
    /\ io' = Append(io, "read_pwfile")
    /\ IF pwFile = Unreadable
       THEN access' = access /\ resp' = 500 /\ pc' = "done"
       ELSE IF ~IsChannelInPasswordFile(req.channel, pwFile)
       THEN access' = "granted" /\ resp' = resp /\ pc' = "gate_done"
       ELSE IF req.header.kind # "basic"
       THEN access' = "denied" /\ resp' = resp /\ pc' = "gate_done"
       ELSE IF ~IdentityMatches(req.channel, req.header.user_id)
       THEN access' = "denied" /\ resp' = resp /\ pc' = "gate_done"
       ELSE access' = access /\ resp' = resp /\ pc' = "gate_password"
    /\ UNCHANGED <<publicMarker, pwFile, req, listing>>
    /\ UNCHANGED <<versions, searchVars, readerVars, indexVars>>

\* user_has_access -> is_password_ok
GatePassword ==
    /\ pc = "gate_password"
    /\ io' = Append(io, "read_pwfile")
    /\ IF pwFile = Unreadable
       THEN access' = access /\ resp' = 500 /\ pc' = "done"
       ELSE /\ access' = IF IsPasswordOk(req.channel, req.header.password, pwFile)
                         THEN "granted" ELSE "denied"
            /\ resp' = resp
            /\ pc' = "gate_done"
    /\ UNCHANGED <<publicMarker, pwFile, req, listing>>
    /\ UNCHANGED <<versions, searchVars, readerVars, indexVars>>

\* build_auth_response
DenyAccess ==
    /\ pc = "gate_done"
    /\ AccessDenied(access)
    /\ resp' = 401
    /\ pc' = "done"
    /\ UNCHANGED <<publicMarker, pwFile, req, access, io, listing>>
    /\ UNCHANGED <<versions, searchVars, readerVars, indexVars>>

\* channel_daily_index after the gate: list the directory, open every log
DailyIndex ==
    /\ pc = "gate_done"
    /\ ~AccessDenied(access)
    /\ req.route = "daily"
    /\ \E n \in 0..MaxLogFiles, ok \in BOOLEAN :
         /\ io' = io \o <<"list_dir">> \o Repeat("open_log", n)
         /\ resp' = IF ok THEN 200 ELSE 500
    /\ pc' = "done"
    /\ UNCHANGED <<publicMarker, pwFile, req, access, listing>>
    /\ UNCHANGED <<versions, searchVars, readerVars, indexVars>>

\* channel_lines after the gate: the query is taken from the request, then
\* a bad date ends with 400, raw=on reads the file's bytes, else read_lines
ChannelLines ==
    /\ pc = "gate_done"
    /\ ~AccessDenied(access)
    /\ req.route = "lines"
    /\ \E query \in {"baddate", "raw", "plain"} :
         IF query = "baddate"
         THEN io' = io /\ resp' = 400
         ELSE \E ok \in BOOLEAN :
                /\ io' = Append(io, IF query = "raw" THEN "read_raw_log"
                                                    ELSE "open_log")
                /\ resp' = IF ok THEN 200 ELSE 500
    /\ pc' = "done"
    /\ UNCHANGED <<publicMarker, pwFile, req, access, listing>>
    /\ UNCHANGED <<versions, searchVars, readerVars, indexVars>>

\* channel_search after the gate: without a search parameter nothing is
\* searched; else the directory is listed and the search process spawned
ChannelSearch ==
    /\ pc = "gate_done"
    /\ ~AccessDenied(access)
    /\ req.route = "search"
    /\ \E query \in {"noquery", "query"} :
         IF query = "noquery"
         THEN io' = io /\ resp' = 200
         ELSE \/ io' = Append(io, "list_dir") /\ resp' = 500
              \/ \E ok \in BOOLEAN :
                   /\ io' = io \o <<"list_dir", "spawn_search">>
                   /\ resp' = IF ok THEN 200 ELSE 500
    /\ pc' = "done"
    /\ UNCHANGED <<publicMarker, pwFile, req, access, listing>>
    /\ UNCHANGED <<versions, searchVars, readerVars, indexVars>>

GateNext ==
    \/ FsWrite
    \/ NewRequest
    \/ Respond
    \/ Index
    \/ GateMarker
    \/ GateMember
    \/ GatePassword
    \/ DenyAccess
    \/ DailyIndex
    \/ ChannelLines
    \/ ChannelSearch

(***************************************************************************)
(* The access check while the credential file is rewritten.                *)
(*                                                                         *)
(* user_has_access reads the credential file twice, in                     *)
(* is_channel_in_password_file and in is_password_ok, each with its own    *)
(* read_to_string; nothing keeps the administrator's script from replacing *)
(* the file between the two. `versions` records the contents the file had  *)
(* from the start of the call to its return.                               *)
(***************************************************************************)
MaxWrites == 1

\* user_has_access (route.rs 295-313) when both reads see the same content
UserHasAccess(channel, header, markers, file) ==
    LET private == IsChannelPrivate(channel, markers, file)
    IN  IF ~private.ok THEN Err
        ELSE IF ~private.val THEN Ok(TRUE)
        ELSE IF header.kind # "basic" THEN Ok(FALSE)
        ELSE IF ~IdentityMatches(channel, header.user_id) THEN Ok(FALSE)
        ELSE Ok(IsPasswordOk(channel, header.password, file))

\* A channel request arrives: user_has_access is the handler's first call
CallStart ==
    /\ pc = "idle"
    /\ \E r \in Requests :
         /\ r.route # "index"
         /\ req' = r
    /\ pc' = "gate_marker"
    /\ access' = "pending"
    /\ io' = <<>>
    /\ resp' = 0
    /\ listing' = Err
    /\ versions' = {pwFile}
    /\ UNCHANGED <<publicMarker, pwFile>>
    /\ UNCHANGED <<searchVars, readerVars, indexVars>>

\* The credential file is replaced while user_has_access runs
PwFileWritten ==
    /\ pc \in {"gate_marker", "gate_member", "gate_password"}
    /\ Cardinality(versions) <= MaxWrites
    /\ \E f \in PwFileStates \ versions :
         /\ pwFile' = f
         /\ versions' = versions \cup {f}
    /\ UNCHANGED <<publicMarker, pc, req, access, io, resp, listing>>
    /\ UNCHANGED <<searchVars, readerVars, indexVars>>

RaceNext ==
    \/ CallStart
    \/ PwFileWritten
    \/ GateMarker
    \/ GateMember
    \/ GatePassword
    \/ DenyAccess
    \/ DailyIndex
    \/ ChannelLines
    \/ ChannelSearch
    \/ Respond

(***************************************************************************)
(* Search delegate: search_channel (state.rs).                             *)
(*                                                                         *)
(* The output of the search process and the result vector are kept         *)
(* run-length encoded, as sequences of runs [item, n] (n copies of item),  *)
(* so that an output of more than 10,000 lines is a small value.           *)
(***************************************************************************)
MaxResults == 10000
MaxOddLines == 1

\* Number of items of a run-length encoded sequence
RECURSIVE RunsLen(_)
RunsLen(runs) ==
    IF Len(runs) = 0 THEN 0 ELSE Head(runs).n + RunsLen(Tail(runs))

\* Item k (1-based) of a run-length encoded sequence
RECURSIVE RunsAt(_, _)
RunsAt(runs, k) ==
    IF k <= Head(runs).n THEN Head(runs).item
    ELSE RunsAt(Tail(runs), k - Head(runs).n)

\* Vec::push on a run-length encoded vector
RunsPush(runs, x) ==
    IF Len(runs) > 0 /\ runs[Len(runs)].item = x
    THEN [runs EXCEPT ![Len(runs)].n = @ + 1]
    ELSE Append(runs, [item |-> x, n |-> 1])

Whitespace == {" ", "\t", "\n", "\r"}
Digits == {"0", "1", "2", "3", "4", "5", "6", "7", "8", "9"}

DigitVal(c) ==
    CASE c = "0" -> 0 [] c = "1" -> 1 [] c = "2" -> 2 [] c = "3" -> 3
      [] c = "4" -> 4 [] c = "5" -> 5 [] c = "6" -> 6 [] c = "7" -> 7
      [] c = "8" -> 8 [] c = "9" -> 9

\* str::trim
RECURSIVE TrimStart(_)
TrimStart(s) ==
    IF Len(s) > 0 /\ s[1] \in Whitespace THEN TrimStart(Tail(s)) ELSE s

RECURSIVE TrimEnd(_)
TrimEnd(s) ==
    IF Len(s) > 0 /\ s[Len(s)] \in Whitespace
    THEN TrimEnd(SubSeq(s, 1, Len(s) - 1)) ELSE s

Trim(s) == TrimEnd(TrimStart(s))

RECURSIVE DigitsVal(_)
DigitsVal(ds) ==
    IF Len(ds) = 0 THEN 0
    ELSE 10 * DigitsVal(SubSeq(ds, 1, Len(ds) - 1)) + DigitVal(ds[Len(ds)])

\* str::parse::<u64>: an optional '+', then one or more digits (the numbers
\* of the model are far below 2^64)
ParseU64(s) ==
    LET ds == IF StartsWithChar(s, "+") THEN Tail(s) ELSE s
    IN  IF Len(ds) > 0 /\ \A i \in 1..Len(ds) : ds[i] \in Digits
        THEN Ok(DigitsVal(ds))
        ELSE Err

\* str::splitn(3, ':')
SplitN3(s) ==
    LET a == SplitOnce(s, ":")
    IN  IF a = None THEN <<s>>
        ELSE LET b == SplitOnce(a.tail, ":")
             IN  IF b = None THEN <<a.head, a.tail>>
                 ELSE <<a.head, b.head, b.tail>>

\* Option::None where the value is a string (OsStr)
NoneStr == <<"(none)">>

\* Path::file_name for the paths of the model: the text after the last '/'
FileName(path) ==
    LET name == SubSeq(path, RFindChar(path, "/") + 1, Len(path))
    IN  IF name = <<>> \/ name = <<".", ".">> THEN NoneStr ELSE name

\* Path::file_stem: the file name up to its last '.', the whole name when the
\* only '.' is its first character or it has none
FileStem(path) ==
    LET name == FileName(path)
    IN  IF name = NoneStr THEN NoneStr
        ELSE IF RFindChar(name, ".") <= 1 THEN name
        ELSE SubSeq(name, 1, RFindChar(name, ".") - 1)

\* Path::extension: the text after the last '.', NoneStr in the cases where
\* file_stem is the whole name
Extension(path) ==
    LET name == FileName(path)
    IN  IF name = NoneStr THEN NoneStr
        ELSE IF RFindChar(name, ".") <= 1 THEN NoneStr
        ELSE SubSeq(name, RFindChar(name, ".") + 1, Len(name))

\* The "too many results" entry
Sentinel ==
    [date_slug |-> <<>>, line_number |-> 0, raw_line |-> <<"(max search results exceed)">>]

\* The body of the loop for one output line: nothing pushed for a line of
\* fewer than three fields, an error for a line number that does not parse
ParseSearchLine(line) ==
    LET parts == SplitN3(line)
    IN  IF Len(parts) = 3
        THEN LET line_number == ParseU64(Trim(parts[2]))
                 stem == FileStem(parts[1])
             IN  IF ~line_number.ok THEN Err
                 ELSE Ok(<<[date_slug |-> IF stem = NoneStr THEN <<>> ELSE stem,
                            line_number |-> line_number.val,
                            raw_line |-> parts[3]]>>)
        ELSE Ok(<<>>)

\* Output lines of the model
lineHit == <<"b", ".", "l", "o", "g", ":", "3", ":", "h">>
linePadded == <<"a", ".", "l", "o", "g", ":", " ", "1", "2", ":", "x">>
lineNoColon == <<"x">>
lineTwoFields == <<"1", "2", ":", "h">>
lineDiagnostic == <<"a", "g", ":", " ", "b", ":", " ", "x">>

OddLines == {linePadded, lineNoColon, lineTwoFields, lineDiagnostic}

\* Lengths of the run of lineHit that ends the output
ShortTails == {0, 1}
LongTails == {MaxResults, MaxResults + 1}

StdoutsWith(tails) ==
    { [i \in 1..Len(odd) |-> [item |-> odd[i], n |-> 1]]
        \o (IF t = 0 THEN <<>> ELSE <<[item |-> lineHit, n |-> t]>>) :
          odd \in SeqsUpTo(OddLines, MaxOddLines), t \in tails }

\* `timeout 10s agrep ...`: not spawned, or exited with a status: 0 matches,
\* 1 no match, 2 an agrep error, 124 the timeout expired
ExitStatuses == {0, 1, 2, 124}

\* The outputs of more than 10,000 lines are those of a run that found its
\* matches (status 0); the short ones come with every status
ProcOutcomes ==
    { [kind |-> "spawn_error", status |-> 0, stdout |-> <<>>] }
    \cup { [kind |-> "exited", status |-> st, stdout |-> out] :
             st \in ExitStatuses, out \in StdoutsWith(ShortTails) }
    \cup { [kind |-> "exited", status |-> 0, stdout |-> out] :
             out \in StdoutsWith(LongTails) }

NoProc == [kind |-> "none", status |-> 0, stdout |-> <<>>]

SearchOff ==
    /\ s_pc = "off"
    /\ s_proc = NoProc
    /\ s_count = 0
    /\ s_results = <<>>
    /\ s_ret = "none"

GateOff ==
    /\ publicMarker = {}
    /\ pwFile = <<>>
    /\ pc = "off"
    /\ req = NoRequest
    /\ access = "pending"
    /\ io = <<>>
    /\ resp = 0
    /\ listing = Err
    /\ versions = {}

SearchInit ==
    /\ s_pc = "idle"
    /\ s_proc = NoProc
    /\ s_count = 0
    /\ s_results = <<>>
    /\ s_ret = "none"

\* search_channel up to process.output(): the directory listing may fail, the
\* spawn may fail, else the process ran and left a status and its stdout
SearchSpawn ==
    /\ s_pc = "idle"
    /\ s_count' = 0
    /\ s_results' = <<>>
    /\ \/ /\ s_proc' = NoProc
          /\ s_ret' = "err"
          /\ s_pc' = "done"
       \/ \E p \in ProcOutcomes :
            /\ s_proc' = p
            /\ IF p.kind = "spawn_error"
               THEN s_ret' = "err" /\ s_pc' = "done"
               ELSE s_ret' = "none" /\ s_pc' = "lines"
    /\ UNCHANGED <<gateVars, readerVars, indexVars>>

\* One turn of `for (count, line) in output.lines().enumerate()`
SearchLine ==
    /\ s_pc = "lines"
    /\ IF s_count = RunsLen(s_proc.stdout)
       THEN \* the iterator is exhausted: Ok(search_results)
            /\ s_ret' = "ok"
            /\ s_pc' = "done"
            /\ UNCHANGED <<s_count, s_results>>
       ELSE IF s_count = MaxResults
       THEN \* the sentinel is pushed and the loop left
            /\ s_results' = RunsPush(s_results, Sentinel)
            /\ s_ret' = "ok"
            /\ s_pc' = "done"
            /\ UNCHANGED s_count
       ELSE LET parsed == ParseSearchLine(RunsAt(s_proc.stdout, s_count + 1))
            IN  IF ~parsed.ok
                THEN /\ s_ret' = "err"
                     /\ s_pc' = "done"
                     /\ UNCHANGED <<s_count, s_results>>
                ELSE /\ s_results' = IF Len(parsed.val) = 0 THEN s_results
                                     ELSE RunsPush(s_results, parsed.val[1])
                     /\ s_count' = s_count + 1
                     /\ UNCHANGED <<s_ret, s_pc>>
    /\ UNCHANGED <<s_proc, gateVars, readerVars, indexVars>>

\* The handler returns; the next search starts afresh
SearchReturn ==
    /\ s_pc = "done"
    /\ s_pc' = "idle"
    /\ s_proc' = NoProc
    /\ s_count' = 0
    /\ s_results' = <<>>
    /\ s_ret' = "none"
    /\ UNCHANGED <<gateVars, readerVars, indexVars>>

SearchNext ==
    \/ SearchSpawn
    \/ SearchLine
    \/ SearchReturn

(***************************************************************************)
(* Log reader (reader.rs).                                                 *)
(***************************************************************************)
MaxLogLines == 2

\* BufRead::lines: the text between the "\n"s, without a final empty piece,
\* each line without its trailing "\r"
StripCr(line) ==
    IF Len(line) > 0 /\ line[Len(line)] = "\r"
    THEN SubSeq(line, 1, Len(line) - 1) ELSE line

FileLines(content) ==
    LET pieces == SplitAll(content, "\n")
        kept == IF pieces[Len(pieces)] = <<>>
                THEN SubSeq(pieces, 1, Len(pieces) - 1) ELSE pieces
    IN  [i \in 1..Len(kept) |-> StripCr(kept[i])]

\* str::trim_start_matches(c) / trim_end_matches(c)
RECURSIVE TrimStartMatches(_, _)
TrimStartMatches(s, c) ==
    IF Len(s) > 0 /\ s[1] = c THEN TrimStartMatches(Tail(s), c) ELSE s

RECURSIVE TrimEndMatches(_, _)
TrimEndMatches(s, c) ==
    IF Len(s) > 0 /\ s[Len(s)] = c
    THEN TrimEndMatches(SubSeq(s, 1, Len(s) - 1), c) ELSE s

\* Last index of the longest run of non-whitespace that starts at k (k - 1
\* when line[k] is whitespace or k is past the end)
RECURSIVE TokenEnd(_, _)
TokenEnd(line, k) ==
    IF k <= Len(line) /\ line[k] \notin Whitespace
    THEN TokenEnd(line, k + 1) ELSE k - 1

\* PATTERN \[(\d\d:\d\d)\] (\S+) (.*) matched with its '[' at index i: the
\* greedy \S+ must end right before a space, and .* takes the rest
MatchesAt(line, i) ==
    /\ i + 7 <= Len(line)
    /\ line[i] = "["
    /\ line[i + 1] \in Digits /\ line[i + 2] \in Digits
    /\ line[i + 3] = ":"
    /\ line[i + 4] \in Digits /\ line[i + 5] \in Digits
    /\ line[i + 6] = "]"
    /\ line[i + 7] = " "
    /\ TokenEnd(line, i + 8) >= i + 8
    /\ TokenEnd(line, i + 8) + 1 <= Len(line)
    /\ line[TokenEnd(line, i + 8) + 1] = " "

\* Regex::captures searches the whole line, so the match may start anywhere:
\* the leftmost start that matches, 0 when there is none
CapturesStart(line) ==
    IF \E i \in 1..Len(line) : MatchesAt(line, i)
    THEN CHOOSE i \in 1..Len(line) :
            MatchesAt(line, i) /\ \A j \in 1..(i - 1) : ~MatchesAt(line, j)
    ELSE 0

\* NaiveTime::parse_from_str(time_str, "%H:%M") on "dd:dd"
ParseTime(time_str) ==
    LET h == DigitsVal(SubSeq(time_str, 1, 2))
        mi == DigitsVal(SubSeq(time_str, 4, 5))
    IN  IF h <= 23 /\ mi <= 59 THEN Ok([hour |-> h, minute |-> mi]) ELSE Err

\* parse_line
ParseLine(line) ==
    LET i == CapturesStart(line)
    IN  IF i = 0 THEN Err
        ELSE LET e == TokenEnd(line, i + 8)
                 time == ParseTime(SubSeq(line, i + 1, i + 5))
                 nickname == TrimEndMatches(
                                TrimStartMatches(SubSeq(line, i + 8, e), "<"), ">")
                 text == SubSeq(line, e + 2, Len(line))
             IN  IF ~time.ok THEN Err
                 ELSE IF nickname = <<"*", "*", "*">>
                 THEN Ok([time |-> time.val, kind |-> "Status",
                          nickname |-> <<>>, text |-> text])
                 ELSE Ok([time |-> time.val, kind |-> "Message",
                          nickname |-> nickname, text |-> text])

\* count_message_lines, on the decoded content: the lines without "] *** "
RECURSIVE CountLines(_)
CountLines(lines) ==
    IF Len(lines) = 0 THEN 0
    ELSE (IF ~ContainsStr(Head(lines), <<"]", " ", "*", "*", "*", " ">>)
          THEN 1 ELSE 0) + CountLines(Tail(lines))

CountMessageLines(content) == Ok(CountLines(FileLines(content)))

\* read_lines, on the decoded content: empty lines are skipped, the first
\* line that does not parse ends the read with its error
RECURSIVE ReadLoop(_, _)
ReadLoop(lines, acc) ==
    IF Len(lines) = 0 THEN Ok(acc)
    ELSE IF Head(lines) = <<>> THEN ReadLoop(Tail(lines), acc)
    ELSE LET parsed == ParseLine(Head(lines))
         IN  IF ~parsed.ok THEN Err
             ELSE ReadLoop(Tail(lines), Append(acc, parsed.val))

ReadLines(content) == ReadLoop(FileLines(content), <<>>)

\* The search process (agrep -n) names a matching line by its 1-based index
\* in the file, written in decimal between the path and the text
RECURSIVE Decimal(_)
Decimal(n) ==
    LET d == CHOOSE c \in Digits : DigitVal(c) = n % 10
    IN  IF n < 10 THEN <<d>> ELSE Append(Decimal(n \div 10), d)

AgrepLine(path, i, line, pad) ==
    path \o <<":">> \o pad \o Decimal(i) \o <<":">> \o pad \o line

\* make_output_lines: the events numbered from 1 in the order read_lines
\* returned them; a Status has an empty nickname
MakeOutputLines(lines) ==
    [k \in 1..Len(lines) |->
        [time |-> lines[k].time,
         nickname |-> IF lines[k].kind = "Status" THEN <<>> ELSE lines[k].nickname,
         text |-> lines[k].text,
         line_number |-> k]]

\* Lines of the model
logMessage ==
    <<"[", "1", "2", ":", "0", "0", "]", " ", "<", "b", ">", " ", "h">>
logStatus ==
    <<"[", "1", "2", ":", "0", "0", "]", " ", "*", "*", "*", " ", "h">>
logBlank ==
    <<>>
logNoTime ==
    <<"x">>
logLateTime ==
    <<"x", " ", "[", "1", "2", ":", "0", "0", "]", " ", "b", " ", "h">>
logMessageStars ==
    <<"[", "1", "2", ":", "0", "0", "]", " ", "b", " ", "]", " ", "*", "*", "*", " ", "h">>
logBracketStars ==
    <<"[", "1", "2", ":", "0", "0", "]", " ", "<", "*", "*", "*", ">", " ", "h">>
logBadHour ==
    <<"[", "9", "9", ":", "0", "0", "]", " ", "b", " ", "h">>
logNoText ==
    <<"[", "1", "2", ":", "0", "0", "]", " ", "b">>

LogLines ==
    {logMessage, logStatus, logBlank, logNoTime, logLateTime, logMessageStars,
     logBracketStars, logBadHour, logNoText}

\* Contents of a log file: lines ended by "\n", the last one maybe not
LogContents ==
    { JoinLines(ls) \o nl :
        ls \in SeqsUpTo(LogLines, MaxLogLines), nl \in {<<>>, <<"\n">>} }

ReaderOff ==
    /\ r_pc = "off"
    /\ r_file = <<>>
    /\ r_count = Err
    /\ r_read = Err
    /\ r_view = <<>>

ReaderInit ==
    /\ r_pc = "closed"
    /\ r_file = <<>>
    /\ r_count = Err
    /\ r_read = Err
    /\ r_view = <<>>

\* The logger left a file
LogWritten ==
    /\ r_pc = "closed"
    /\ r_file' \in LogContents
    /\ r_pc' = "written"
    /\ UNCHANGED <<r_count, r_read, r_view, gateVars, searchVars, indexVars>>

\* count_message_lines on the file (the daily index)
CountFile ==
    /\ r_pc = "written"
    /\ r_count' = CountMessageLines(r_file)
    /\ r_pc' = "counted"
    /\ UNCHANGED <<r_file, r_read, r_view, gateVars, searchVars, indexVars>>

\* read_lines on the same file (the line view)
ReadFile ==
    /\ r_pc = "counted"
    /\ r_read' = ReadLines(r_file)
    /\ r_pc' = "read"
    /\ UNCHANGED <<r_file, r_count, r_view, gateVars, searchVars, indexVars>>

\* channel_lines, after get_log_lines succeeded: make_output_lines
ViewFile ==
    /\ r_pc = "read"
    /\ r_read.ok
    /\ r_view' = MakeOutputLines(r_read.val)
    /\ r_pc' = "viewed"
    /\ UNCHANGED <<r_file, r_count, r_read, gateVars, searchVars, indexVars>>

\* Both results were delivered; another file is looked at
ReaderClose ==
    /\ r_pc \in {"read", "viewed"}
    /\ r_pc' = "closed"
    /\ r_file' = <<>>
    /\ r_count' = Err
    /\ r_read' = Err
    /\ r_view' = <<>>
    /\ UNCHANGED <<gateVars, searchVars, indexVars>>

ReaderNext ==
    \/ LogWritten
    \/ CountFile
    \/ ReadFile
    \/ ViewFile
    \/ ReaderClose

(***************************************************************************)
(* Archive indexer (state.rs).                                             *)
(*                                                                         *)
(* File names are sequences of characters and of bytes that are not valid  *)
(* UTF-8 ("xFF"); "uFFFD" is the replacement character.                    *)
(***************************************************************************)
\* A panic (unwrap on None): the call does not return
Panic == [ok |-> FALSE, panic |-> TRUE]

\* OsStr::to_string_lossy: every invalid byte becomes U+FFFD
ToStringLossy(name) ==
    [i \in 1..Len(name) |-> IF name[i] = "xFF" THEN "uFFFD" ELSE name[i]]

\* OsStr::to_str: None unless valid UTF-8
ToStr(name) ==
    IF name # NoneStr /\ \A i \in 1..Len(name) : name[i] # "xFF"
    THEN name ELSE NoneStr

\* Insertion of x into a sequence sorted ascending by `less`
RECURSIVE InsertSlug(_, _)
InsertSlug(sorted, x) ==
    IF Len(sorted) = 0 THEN <<x>>
    ELSE IF StrLess(x, Head(sorted)) THEN <<x>> \o sorted
    ELSE <<Head(sorted)>> \o InsertSlug(Tail(sorted), x)

\* The slugs of the entries of a directory whose extension is "log", in
\* ascending order (sort_unstable), one per such entry
RECURSIVE SlugsOf(_)
SlugsOf(names) ==
    IF names = {} THEN <<>>
    ELSE LET f == CHOOSE x \in names : TRUE
             rest == SlugsOf(names \ {f})
         IN  IF ToStr(Extension(f)) = <<"l", "o", "g">>
             THEN InsertSlug(rest, ToStringLossy(FileStem(f)))
             ELSE rest

\* A channel directory: whether it exists, and its files (name -> content)
Missing == [exists |-> FALSE, files |-> <<>>]

\* get_channel_log_date_slugs: sorted, then reversed
GetChannelLogDateSlugs(dir) ==
    IF ~dir.exists THEN Err ELSE Ok(Reverse(SlugsOf(DOMAIN dir.files)))

IsNumber(s) == Len(s) > 0 /\ \A i \in 1..Len(s) : s[i] \in Digits

DaysIn(y, mo) ==
    IF mo \in {4, 6, 9, 11} THEN 30
    ELSE IF mo # 2 THEN 31
    ELSE IF (y % 4 = 0 /\ y % 100 # 0) \/ y % 400 = 0 THEN 29
    ELSE 28

\* NaiveDate::parse_from_str(date_string, "%Y-%m-%d") for unsigned years
ParseDate(date_string) ==
    LET parts == SplitAll(date_string, "-")
    IN  IF /\ Len(parts) = 3
           /\ IsNumber(parts[1]) /\ Len(parts[1]) <= 4
           /\ IsNumber(parts[2]) /\ Len(parts[2]) <= 2
           /\ IsNumber(parts[3]) /\ Len(parts[3]) <= 2
        THEN LET y == DigitsVal(parts[1])
                 mo == DigitsVal(parts[2])
                 d == DigitsVal(parts[3])
             IN  IF mo \in 1..12 /\ d \in 1..DaysIn(y, mo)
                 THEN Ok([year |-> y, month |-> mo, day |-> d])
                 ELSE Err
        ELSE Err

\* parse_date_slug: split_once(",").unwrap().0, then the date
ParseDateSlug(date_slug) ==
    LET parts == SplitOnce(date_slug, ",")
    IN  IF parts = None THEN Panic ELSE ParseDate(parts.head)

\* get_log_path
GetLogPath(date_slug) == date_slug \o <<".", "l", "o", "g">>

\* One ChannelDailyEntry, or the failure that ends the call
DailyEntry(dir, date_slug) ==
    LET date == ParseDateSlug(date_slug)
        log_path == GetLogPath(date_slug)
    IN  IF ~date.ok THEN date
        ELSE IF log_path \notin DOMAIN dir.files THEN Err
        ELSE LET message_count == CountMessageLines(dir.files[log_path])
             IN  IF ~message_count.ok THEN Err
                 ELSE Ok([date_slug |-> date_slug, date |-> date.val,
                          message_count |-> message_count.val])

\* derive(Ord) on ChannelDailyEntry: by date_slug, then date, then
\* message_count (entries of one slug have one date)
EntryLess(a, b) ==
    \/ StrLess(a.date_slug, b.date_slug)
    \/ a.date_slug = b.date_slug /\ a.message_count < b.message_count

RECURSIVE InsertEntry(_, _)
InsertEntry(sorted, x) ==
    IF Len(sorted) = 0 THEN <<x>>
    ELSE IF EntryLess(x, Head(sorted)) THEN <<x>> \o sorted
    ELSE <<Head(sorted)>> \o InsertEntry(Tail(sorted), x)

RECURSIVE SortEntries(_)
SortEntries(entries) ==
    IF Len(entries) = 0 THEN <<>>
    ELSE InsertEntry(SortEntries(Tail(entries)), Head(entries))

\* The loop of get_channel_daily_entries: the first failure ends it
RECURSIVE EntriesLoop(_, _, _)
EntriesLoop(dir, date_slugs, acc) ==
    IF Len(date_slugs) = 0 THEN Ok(acc)
    ELSE LET e == DailyEntry(dir, Head(date_slugs))
         IN  IF ~e.ok THEN e
             ELSE EntriesLoop(dir, Tail(date_slugs), Append(acc, e.val))

\* get_channel_daily_entries: sort_unstable, then reverse
GetChannelDailyEntries(dir) ==
    LET date_slugs == GetChannelLogDateSlugs(dir)
    IN  IF ~date_slugs.ok THEN Err
        ELSE LET entries == EntriesLoop(dir, date_slugs.val, <<>>)
             IN  IF ~entries.ok THEN entries
                 ELSE Ok(Reverse(SortEntries(entries.val)))

\* get_log_lines
GetLogLines(dir, date_slug) ==
    LET date == ParseDateSlug(date_slug)
        log_path == GetLogPath(date_slug)
    IN  IF ~date.ok THEN date
        ELSE IF ~dir.exists \/ log_path \notin DOMAIN dir.files THEN Err
        ELSE ReadLines(dir.files[log_path])

\* File names of the model
fileDay2 ==
    <<"2", "0", "2", "4", "-", "0", "1", "-", "0", "2", ",", "a", ".", "l", "o", "g">>
fileDay3 ==
    <<"2", "0", "2", "4", "-", "0", "1", "-", "0", "3", ",", "b", ".", "l", "o", "g">>
fileNoComma ==
    <<"n", "o", "t", "e", "s", ".", "l", "o", "g">>
fileText ==
    <<"2", "0", "2", "4", "-", "0", "1", "-", "0", "2", ",", "a", ".", "t", "x", "t">>
fileBadMonth ==
    <<"2", "0", "2", "4", "-", "1", "3", "-", "0", "1", ",", "a", ".", "l", "o", "g">>
filePublic ==
    <<"P", "U", "B", "L", "I", "C">>
fileDotLog ==
    <<".", "l", "o", "g">>
fileDay2Invalid ==
    <<"2", "0", "2", "4", "-", "0", "1", "-", "0", "2", ",", "xFF", ".", "l", "o", "g">>
fileDay2Replacement ==
    <<"2", "0", "2", "4", "-", "0", "1", "-", "0", "2", ",", "uFFFD", ".", "l", "o", "g">>

FileNames ==
    {fileDay2, fileDay3, fileNoComma, fileText, fileBadMonth, filePublic,
     fileDotLog, fileDay2Invalid, fileDay2Replacement}

\* Slugs given to get_log_lines
DaySlugs ==
    { <<"2", "0", "2", "4", "-", "0", "1", "-", "0", "2", ",", "a">>,
      <<"2", "0", "2", "4", "0", "1", "0", "2">>,
      <<"2", "0", "2", "4", "-", "1", "3", "-", "0", "1", ",", "a">> }

DayContents == { <<>>, JoinLines(<<logMessage, logStatus>>) \o <<"\n">> }

Dirs ==
    {Missing}
    \cup { [exists |-> TRUE, files |-> fs] :
             fs \in UNION { [names -> DayContents] :
                              names \in { ns \in SUBSET FileNames :
                                            Cardinality(ns) <= MaxLogFiles } } }

NoDay == [date_slug |-> <<>>, ret |-> Err]

IndexOff ==
    /\ d_pc = "off"
    /\ d_dir = Missing
    /\ d_entries = Err
    /\ d_day = NoDay

IndexInit ==
    /\ d_pc = "start"
    /\ d_dir \in Dirs
    /\ d_entries = Err
    /\ d_day = NoDay

\* get_channel_daily_entries on the directory
DailyEntries ==
    /\ d_pc = "start"
    /\ d_entries' = GetChannelDailyEntries(d_dir)
    /\ d_pc' = "indexed"
    /\ UNCHANGED <<d_dir, d_day, gateVars, searchVars, readerVars>>

\* get_log_lines for a slug
ReadDay ==
    /\ d_pc = "indexed"
    /\ \E slug \in DaySlugs :
         d_day' = [date_slug |-> slug, ret |-> GetLogLines(d_dir, slug)]
    /\ d_pc' = "read"
    /\ UNCHANGED <<d_dir, d_entries, gateVars, searchVars, readerVars>>

\* The logger adds, removes or rewrites a file, or the directory appears or
\* goes; the next requests see it
DirChanged ==
    /\ d_pc = "read"
    /\ \/ d_dir' = Missing
       \/ /\ ~d_dir.exists
          /\ d_dir' = [exists |-> TRUE, files |-> <<>>]
       \/ /\ d_dir.exists
          /\ \E f \in DOMAIN d_dir.files :
               d_dir' = [d_dir EXCEPT !.files =
                           [g \in DOMAIN d_dir.files \ {f} |-> d_dir.files[g]]]
       \/ /\ d_dir.exists
          /\ \E f \in FileNames, c \in DayContents :
               /\ Cardinality(DOMAIN d_dir.files \cup {f}) <= MaxLogFiles
               /\ d_dir' = [d_dir EXCEPT !.files =
                              [g \in DOMAIN d_dir.files \cup {f} |->
                                 IF g = f THEN c ELSE d_dir.files[g]]]
    /\ d_entries' = Err
    /\ d_day' = NoDay
    /\ d_pc' = "start"
    /\ UNCHANGED <<gateVars, searchVars, readerVars>>

IndexNext ==
    \/ DailyEntries
    \/ ReadDay
    \/ DirChanged

(***************************************************************************)
(* Specifications.                                                         *)
(***************************************************************************)
Init == GateInit /\ SearchOff /\ ReaderOff /\ IndexOff

Spec == Init /\ [][GateNext]_vars

InitSearch == SearchInit /\ GateOff /\ ReaderOff /\ IndexOff

SpecSearch == InitSearch /\ [][SearchNext]_vars

InitReader == ReaderInit /\ GateOff /\ SearchOff /\ IndexOff

SpecReader == InitReader /\ [][ReaderNext]_vars

InitIndex == IndexInit /\ GateOff /\ SearchOff /\ ReaderOff

SpecIndex == InitIndex /\ [][IndexNext]_vars

SpecRace == Init /\ [][RaceNext]_vars

(***************************************************************************)
(* Claims about the access gate.                                           *)
(***************************************************************************)
\* The records of a credential file, read declaratively: line i is a record
\* of `name` when it holds a ':' and the text before the first ':' is name
LinesOf(content) == SplitAll(content, "\n")

IsRecordOf(line, name) ==
    FindChar(line, ":") > 0 /\ SubSeq(line, 1, FindChar(line, ":") - 1) = name

SecretOf(line) == SubSeq(line, FindChar(line, ":") + 1, Len(line))

\* name is a key of the file: some line that is not a '#' comment is a
\* record of name
KeyPresent(name, content) ==
    \E i \in 1..Len(LinesOf(content)) :
        /\ ~StartsWithChar(LinesOf(content)[i], "#")
        /\ IsRecordOf(LinesOf(content)[i], name)

\* the store verifies the password for name: the record of name in force
\* (the last one) holds the hash of the password
StoreVerifies(name, password, content) ==
    \E i \in 1..Len(LinesOf(content)) :
        /\ IsRecordOf(LinesOf(content)[i], name)
        /\ HashCheck(SecretOf(LinesOf(content)[i]), password)
        /\ \A j \in (i + 1)..Len(LinesOf(content)) :
              ~IsRecordOf(LinesOf(content)[j], name)

\* C1: is_channel_private(name) is true iff no PUBLIC marker exists for the
\* channel and the name is a key of the credential file, for every name and
\* every state of the files, and it is false whenever the marker exists; the
\* listing of get_channels reports exactly that for every directory.
C1_PrivateIffUnmarkedAndKeyed ==
    [][ (pc = "index" /\ pc' = "done")
          => /\ \A n \in Names :
                  /\ (IsChannelPrivate(n, publicMarker, pwFile) = Ok(TRUE))
                       <=> (/\ n \notin publicMarker
                            /\ pwFile # Unreadable
                            /\ KeyPresent(n, pwFile))
                  /\ n \in publicMarker
                       => IsChannelPrivate(n, publicMarker, pwFile) = Ok(FALSE)
             /\ listing'.ok
                  => /\ { listing'.val[i].name : i \in 1..Len(listing'.val) }
                          = ChannelDirs
                     /\ \A i \in 1..Len(listing'.val) :
                          listing'.val[i].is_private
                            <=> (/\ listing'.val[i].name \notin publicMarker
                                 /\ pwFile # Unreadable
                                 /\ KeyPresent(listing'.val[i].name, pwFile))
      ]_vars

\* a listing that reports one private channel, and reports as not private a
\* channel that is a key of the file but carries the PUBLIC marker
C1_Witness ==
    /\ pc = "done"
    /\ req.route = "index"
    /\ listing.ok
    /\ pwFile # Unreadable
    /\ KeyPresent(nFo, pwFile)
    /\ nFo \in publicMarker
    /\ \E i \in 1..Len(listing.val) :
         listing.val[i].name = nFo /\ ~listing.val[i].is_private

\* C2: in a channel request the access check comes before every archive
\* operation, and a denied request makes none: it ends with 401 and its I/O
\* holds no directory listing, log open or read, or search spawn.
C2_DeniedMakesNoArchiveIO ==
    /\ \A i \in 1..Len(io) :
         io[i] \in ArchiveOps
           => /\ access = "granted"
              /\ io[1] = "stat_public"
              /\ \A j \in 1..Len(io) : io[j] \notin ArchiveOps => j < i
    /\ resp = 401 => \A i \in 1..Len(io) : io[i] \notin ArchiveOps
    /\ (access = "denied" /\ pc = "done")
         => (resp = 401 /\ \A i \in 1..Len(io) : io[i] \notin ArchiveOps)

\* a search request denied after the password check
C2_Witness ==
    /\ pc = "done"
    /\ req.route = "search"
    /\ access = "denied"
    /\ resp = 401
    /\ io = <<"stat_public", "read_pwfile", "read_pwfile">>

\* C3: on a private channel the check grants access only if the presented
\* identity equals the channel name exactly and the store verifies the
\* presented secret for the channel; with no Authorization header or an
\* undecodable one the check is false (denied), not an error.
C3_GrantNeedsIdentityAndSecret ==
    [][ /\ (pc = "gate_password" /\ access' = "granted")
             => /\ req.header.kind = "basic"
                /\ req.header.user_id = req.channel
                /\ pwFile # Unreadable
                /\ StoreVerifies(req.channel, req.header.password, pwFile)
        /\ (/\ pc = "gate_member"
            /\ pc' # "gate_member"
            /\ pwFile # Unreadable
            /\ KeyPresent(req.channel, pwFile))
             => /\ access' # "granted"
                /\ (req.header.kind = "basic" /\ req.header.user_id # req.channel)
                     => (access' = "denied" /\ pc' = "gate_done" /\ resp' = 0)
                /\ req.header.kind \in {"none", "undecodable"}
                     => (access' = "denied" /\ pc' = "gate_done" /\ resp' = 0)
      ]_vars

\* access granted on a private channel by the password check
C3_Witness ==
    /\ pc = "gate_done"
    /\ access = "granted"
    /\ req.header.kind = "basic"
    /\ io = <<"stat_public", "read_pwfile", "read_pwfile">>
    /\ pwFile # Unreadable
    /\ KeyPresent(req.channel, pwFile)


(***************************************************************************)
(* Claims about the search delegate.                                       *)
(***************************************************************************)
\* A line of the shape path:line_number:raw_text
IsHitLine(line) ==
    /\ Len(SplitN3(line)) = 3
    /\ ParseU64(Trim(SplitN3(line)[2])).ok

\* Number of lines of that shape in a run-length encoded output
RECURSIVE CountHitLines(_)
CountHitLines(runs) ==
    IF Len(runs) = 0 THEN 0
    ELSE (IF IsHitLine(Head(runs).item) THEN Head(runs).n ELSE 0)
           + CountHitLines(Tail(runs))

\* Number of entries of the result, the sentinel left out
RECURSIVE CountRegular(_)
CountRegular(runs) ==
    IF Len(runs) = 0 THEN 0
    ELSE (IF Head(runs).item = Sentinel THEN 0 ELSE Head(runs).n)
           + CountRegular(Tail(runs))

HasSentinel(runs) == \E i \in 1..Len(runs) : runs[i].item = Sentinel

EndsWithOneSentinel(runs) ==
    /\ Len(runs) > 0
    /\ runs[Len(runs)] = [item |-> Sentinel, n |-> 1]
    /\ \A i \in 1..(Len(runs) - 1) : runs[i].item # Sentinel

\* C4: search returns an error whenever the search process failed: it could
\* not be spawned, it timed out (status 124) or it exited with a status that
\* is neither 0 nor the "no match" status 1.
C4_ProcessFailureIsError ==
    (/\ s_pc = "done"
     /\ \/ s_proc.kind = "spawn_error"
        \/ s_proc.kind = "exited" /\ s_proc.status \notin {0, 1})
      => s_ret = "err"

\* C5: with more than 10,000 matches in the output the result is exactly
\* 10,000 regular hits and then one sentinel; with at most 10,000 matches all
\* of them are returned and no sentinel (dropped lines do not use up the cap).
C5_CapCountsReturnedHits ==
    (s_pc = "done" /\ s_ret = "ok")
      => IF CountHitLines(s_proc.stdout) > MaxResults
         THEN /\ CountRegular(s_results) = MaxResults
              /\ EndsWithOneSentinel(s_results)
         ELSE /\ CountRegular(s_results) = CountHitLines(s_proc.stdout)
              /\ ~HasSentinel(s_results)

\* C6: a line that is not of the shape path:line_number:raw_text is dropped:
\* the search does not fail because of it, it gives no hit, and the lines of
\* that shape around it give theirs (outputs within the cap).
C6_OddLinesAreDropped ==
    (/\ s_pc = "done"
     /\ s_proc.kind = "exited"
     /\ RunsLen(s_proc.stdout) <= MaxResults)
      => /\ s_ret = "ok"
         /\ CountRegular(s_results) = CountHitLines(s_proc.stdout)
         /\ \A i \in 1..Len(s_results) :
              \E j \in 1..Len(s_proc.stdout) :
                 /\ IsHitLine(s_proc.stdout[j].item)
                 /\ ParseSearchLine(s_proc.stdout[j].item) = Ok(<<s_results[i].item>>)


(***************************************************************************)
(* Claims about the log reader.                                            *)
(***************************************************************************)
\* The line begins with a "[dd:dd] " block
HasLeadingTimeBlock(line) ==
    /\ Len(line) >= 8
    /\ line[1] = "["
    /\ line[2] \in Digits /\ line[3] \in Digits
    /\ line[4] = ":"
    /\ line[5] \in Digits /\ line[6] \in Digits
    /\ line[7] = "]"
    /\ line[8] = " "

IsMessageLine(line) ==
    line # <<>> /\ ParseLine(line).ok /\ ParseLine(line).val.kind = "Message"

MessagesIn(events) ==
    Cardinality({ i \in 1..Len(events) : events[i].kind = "Message" })

\* C7: the counting pass counts a line iff the parser classifies it as a
\* Message, so message_count is the number of Message events read_lines
\* yields for the file.
C7_CountIsNumberOfMessages ==
    (r_pc = "read")
      => /\ \A i \in 1..Len(FileLines(r_file)) :
              (~ContainsStr(FileLines(r_file)[i], <<"]", " ", "*", "*", "*", " ">>))
                <=> IsMessageLine(FileLines(r_file)[i])
         /\ (r_count.ok /\ r_read.ok) => r_count.val = MessagesIn(r_read.val)

\* C8: a line is accepted only when it begins with the [HH:MM] block: a file
\* that read_lines accepts holds only blank lines and lines that begin so.
C8_AcceptedLineBeginsWithTime ==
    (r_pc = "read" /\ r_read.ok)
      => \A i \in 1..Len(FileLines(r_file)) :
            FileLines(r_file)[i] # <<>> => HasLeadingTimeBlock(FileLines(r_file)[i])

(***************************************************************************)
(* Claims about the archive indexer.                                       *)
(***************************************************************************)
\* A directory entry with the log extension
EndsInDotLog(name) ==
    Len(name) > 4 /\ SubSeq(name, Len(name) - 3, Len(name)) = <<".", "l", "o", "g">>

LogFilesOf(dir) == { f \in DOMAIN dir.files : EndsInDotLog(f) }

\* C9: a slug without ',' makes daily_entries and read_day return an error
\* value to the caller; the call neither skips the file nor crashes.
C9_SlugWithoutCommaIsError ==
    /\ (/\ d_pc \in {"indexed", "read"}
        /\ d_dir.exists
        /\ \E f \in LogFilesOf(d_dir) : FindChar(f, ",") = 0)
         => d_entries = Err
    /\ (d_pc = "read" /\ FindChar(d_day.date_slug, ",") = 0)
         => d_day.ret = Err

\* C10: on success daily_entries holds one entry per file with the log
\* extension, strictly descending by date_slug.
C10_OneEntryPerLogDescending ==
    (d_pc \in {"indexed", "read"} /\ d_entries.ok)
      => /\ Len(d_entries.val) = Cardinality(LogFilesOf(d_dir))
         /\ \A i \in 1..(Len(d_entries.val) - 1) :
              StrLess(d_entries.val[i + 1].date_slug, d_entries.val[i].date_slug)

(***************************************************************************)
(* Claims about the membership query of the credential file.               *)
(***************************************************************************)
\* Every line of the file starts with '#'
OnlyCommentLines(content) ==
    \A i \in 1..Len(LinesOf(content)) : StartsWithChar(LinesOf(content)[i], "#")

\* C11: is_channel_in_password_file(name) is true iff some line that does
\* not start with '#' has exactly name before its first ':'; a line starting
\* with '#' never makes it true, whatever record follows the '#'. Checked
\* where the query runs: in the listing of get_channels (for the directory
\* names, "#fo" among them) and in the access check of a channel request.
C11_MemberIffUncommentedRecord ==
    [][ (/\ pwFile # Unreadable
         /\ \/ pc = "index" /\ pc' = "done"
            \/ pc = "gate_member" /\ pc' # "gate_member")
          => /\ \A n \in Names :
                  /\ IsChannelInPasswordFile(n, pwFile) <=> KeyPresent(n, pwFile)
                  /\ OnlyCommentLines(pwFile) => ~IsChannelInPasswordFile(n, pwFile)
             /\ (pc = "index" /\ listing'.ok)
                  => \A i \in 1..Len(listing'.val) :
                       listing'.val[i].name \notin publicMarker
                         => (listing'.val[i].is_private
                               <=> KeyPresent(listing'.val[i].name, pwFile))
             /\ (pc = "gate_member")
                  => ((pc' = "gate_done" /\ access' = "granted")
                        <=> ~KeyPresent(req.channel, pwFile))
      ]_vars

\* a listing made from a file that holds the line "#fo:P" and a record of
\* "fo": the channel "#fo" is listed as not private, the channel "fo" as
\* private
C11_Witness ==
    /\ pc = "done"
    /\ req.route = "index"
    /\ listing.ok
    /\ publicMarker = {}
    /\ pwFile # Unreadable
    /\ \E i \in 1..Len(LinesOf(pwFile)) : LinesOf(pwFile)[i] = <<"#", "f", "o", ":", "P">>
    /\ \E i, j \in 1..Len(listing.val) :
         /\ listing.val[i].name = nHashFo /\ ~listing.val[i].is_private
         /\ listing.val[j].name = nFo /\ listing.val[j].is_private

(***************************************************************************)
(* Claims about the access check under a concurrent writer.                *)
(***************************************************************************)
\* C12: with the credential file rewritten while a request runs, the decision
\* of user_has_access (granted or denied) is the decision that one of the
\* contents the file had during the call gives when both reads see it; the
\* two reads never combine into a decision no single content gives.
C12_DecisionOfSomeSingleVersion ==
    (pc = "gate_done" /\ access \in {"granted", "denied"})
      => \E v \in versions :
            UserHasAccess(req.channel, req.header, publicMarker, v)
              = Ok(access = "granted")

(***************************************************************************)
(* Claims about line numbers in the line view and in search hits.          *)
(***************************************************************************)
\* Position, among the events read_lines returns, of line i of the file:
\* the number of lines up to i that read_lines does not skip
EventIndex(lines, i) == Cardinality({ j \in 1..i : lines[j] # <<>> })

\* The line_number search_channel gives a hit on line i of the file
HitLineNumbers(lines, i) ==
    { ParseSearchLine(AgrepLine(fileDay2, i, lines[i], pad)).val[1].line_number :
        pad \in {<<>>, <<" ">>} }

\* C13: for every line of a log file that parses, the line number the line
\* view gives it equals its 1-based index in the file, which is the
\* line_number of a search hit on that line.
C13_ViewNumberIsFileIndex ==
    r_pc = "viewed"
      => \A i \in 1..Len(FileLines(r_file)) :
            FileLines(r_file)[i] # <<>>
              => LET k == EventIndex(FileLines(r_file), i)
                 IN  /\ r_view[k].text = ParseLine(FileLines(r_file)[i]).val.text
                     /\ HitLineNumbers(FileLines(r_file), i) = {i}
                     /\ r_view[k].line_number = i

=============================================================================
